---------------------------- MODULE Spec2Model ----------------------------
(***************************************************************************)
(* A model of the credential and token logic of the momopy client library  *)
(* (src/mtn/base.py, src/mtn/collections/collection.py,                    *)
(* src/mtn/disbursements/disbursement.py, src/mtn/sandbox/*.py).           *)
(*                                                                         *)
(* Every method is modelled at the granularity of its HTTP requests: one   *)
(* action per request (the request and the handling of its response) and   *)
(* one action per piece of glue code between two requests.  The remote     *)
(* side is unconstrained: every request draws its response from the set    *)
(* of responses the code distinguishes.  The wall clock (datetime.now())   *)
(* is the variable now, advanced by Tick between any two steps.            *)
(***************************************************************************)
EXTENDS Integers, Sequences, FiniteSets, TLC

(***************************************************************************)
(* Bounds of the model.                                                    *)
(***************************************************************************)
\* last value of the wall clock
MaxTime == 1
\* number of uuid.uuid4() calls a behaviour may make
MaxUuid == 1
\* depth at which the interpreter stops the recursion of _create_api_user
\* (RecursionError; sys.getrecursionlimit() is 1000 in CPython)
RecursionLimit == 2
\* largest expires_in the token endpoint answers with
MaxExpiresIn == 2

(***************************************************************************)
(* Values.  Python's None is the string "None"; identifiers, keys and      *)
(* tokens are opaque strings.                                              *)
(***************************************************************************)
None == "None"
Truthy(x) == x # None

\* instances a behaviour may construct
Inst == {1}

\* the id a caller passes to a constructor / to setup_api_credentials
SuppliedUser == "U"
SetupUser == "V"
\* values of uuid.uuid4(): the n-th call returns Uuids[n]
Uuids == <<"uuid1", "uuid2", "uuid3", "uuid4", "uuid5", "uuid6">>
Uuid(n) == Uuids[n]

\* keys: supplied by the caller, or issued by POST .../apikey
SuppliedKey == "K0"
SetupKey == "K1"
IssuedKeys == {"keyA"}

\* tokens: supplied to the constructor, or issued by POST /{product}/token/
SuppliedToken == "t0"
IssuedTokens == {"tokA", "tokB", "tokD"}
\* the access tokens the token endpoint of product p issues: the endpoints
\* of different products issue different tokens
TokensOf(p) == IF p = "collection" THEN {"tokA", "tokB"} ELSE {"tokD"}

SubKeys == {"sk"}
Products == {"collection", "disbursement"}
ExpiresIn == 1..MaxExpiresIn

\* self._token_expiry_time = None
NoExpiry == -1
\* response.get('expires_in') of a body without expires_in
NoExpiresIn == -1

\* statuses the code distinguishes; "exc" is a transport failure or a body
\* that is not JSON (requests raises), "401" stands for every status the
\* code sends to the same branch as 401 (400, the final else)
CheckStatuses == {"200", "404", "500", "exc"}
CreateUserStatuses == {"201", "409", "401", "exc"}
CreateKeyStatuses == {"201", "404", "401", "exc"}
TokenStatuses == {"200", "500", "401", "exc"}

VARIABLES
    inst,       \* the attributes of every instance
    now,        \* datetime.now()
    uuidCount,  \* number of uuid.uuid4() calls made so far
    cur,        \* the instance the running call acts on (self)
    top,        \* the method the caller invoked (last, or running)
    pc,         \* position of the running call; "idle" between calls
    stack,      \* return positions of the callers of the running method
    sk,         \* the subscription_key argument of the running method
    product,    \* the product argument of _generate_token
    depth,      \* recursion depth of _create_api_user
    ret,        \* value the last finished inner method returned
    result,     \* what the last finished call returned or raised
    sent,       \* the latest request of the call (NoReq if none yet)
    resp,       \* the response to it
    cnt,        \* requests of each kind issued since the call began
    atCall,     \* what the instance held when the call began
    confirmed   \* the ids the remote has confirmed (GET 200 or POST 201)

vars == <<inst, now, uuidCount, cur, top, pc, stack, sk, product, depth,
          ret, result, sent, resp, cnt, atCall, confirmed>>

self == inst[cur]

(***************************************************************************)
(* Base.__init__ (state of a fresh instance) and the read-only properties. *)
(***************************************************************************)
Unconstructed ==
    [kind |-> "none", token |-> None, expiry |-> NoExpiry, api_user |-> None,
     api_key |-> None, subscription_key |-> None, provided |-> FALSE]

\* Base.__init__(token=tok, **kwargs); given says whether 'api_user' is a
\* key of kwargs.
Base_init(kind, tok, given, user, key, sub) ==
    [kind |-> kind, token |-> tok, expiry |-> NoExpiry, api_user |-> user,
     api_key |-> key, subscription_key |-> sub, provided |-> given]

\* Collection.__init__(api_user, api_key, subscription_key, **kwargs):
\* api_user is a named parameter, so it never is a key of kwargs.
Collection_init(tok, user, key, sub) ==
    [Base_init("Collection", tok, FALSE, None, None, None)
        EXCEPT !.api_user = user, !.api_key = key, !.subscription_key = sub]

\* the comparison of Base.token and Base.token_status
NotExpired(exp, t) == exp > t

\* Base.token (property): the token if valid, else None
token(o, t) ==
    IF Truthy(o.token) /\ o.expiry # NoExpiry /\ NotExpired(o.expiry, t)
    THEN o.token ELSE None

\* Base.token_status()
token_status(o, t) ==
    IF o.expiry = NoExpiry THEN FALSE ELSE NotExpired(o.expiry, t)

\* the cached token at time t: "valid", "expired" (its expiry time has
\* come), or "none" (no token, or a token that never had an expiry time)
TokenClass(o, t) ==
    IF Truthy(token(o, t)) THEN "valid"
    ELSE IF Truthy(o.token) /\ o.expiry # NoExpiry THEN "expired"
    ELSE "none"

\* what a call finds when it begins: the class of the cached token, whether
\* an API user and an API key are set, and whether a subscription key is
\* at hand (passed as s, or set on the instance)
AtCall(o, t, s) ==
    [token |-> TokenClass(o, t), api_user |-> Truthy(o.api_user),
     api_key |-> Truthy(o.api_key),
     sub |-> Truthy(s) \/ Truthy(o.subscription_key)]

\* Sandbox.token_status() of src/mtn/sandbox/sandbox_working.py, on an
\* object that holds a token_expiry_time: line 146 compares with >=
sandbox_token_status(o, t) ==
    IF o.expiry = NoExpiry THEN FALSE ELSE o.expiry >= t

(***************************************************************************)
(* Requests.                                                               *)
(***************************************************************************)
NoReq ==
    [kind |-> "none", user |-> None, key |-> None, ref |-> "absent",
     bearer |-> "absent", op |-> None]

\* GET /v1_0/apiuser/{id}
CheckUserReq(id) == [NoReq EXCEPT !.kind = "check_user", !.user = id]
\* POST /v1_0/apiuser with X-Reference-Id = id
CreateUserReq(id) == [NoReq EXCEPT !.kind = "create_user", !.ref = id]
\* POST /v1_0/apiuser/{id}/apikey
CreateKeyReq(id) == [NoReq EXCEPT !.kind = "create_key", !.user = id]
\* POST /{product}/token/ with auth=(user, key)
TokenReq(p, id, key) ==
    [NoReq EXCEPT !.kind = "token", !.user = id, !.key = key, !.op = p]

\* cnt.ref is the X-Reference-Id of the latest creation POST of the call
NoCnt ==
    [check |-> 0, user |-> 0, key |-> 0, tok |-> 0, ep |-> 0, ref |-> "absent"]
Count(r) ==
    CASE r.kind = "check_user" -> [cnt EXCEPT !.check = @ + 1]
      [] r.kind = "create_user" -> [cnt EXCEPT !.user = @ + 1, !.ref = r.ref]
      [] r.kind = "create_key" -> [cnt EXCEPT !.key = @ + 1]
      [] r.kind = "token" -> [cnt EXCEPT !.tok = @ + 1]
      [] r.kind = "endpoint" -> [cnt EXCEPT !.ep = @ + 1]
      [] OTHER -> cnt

\* a response: its status and what the code reads from its JSON body
\* (val: access_token or apiKey, exp: expires_in)
Resp(s, v, e) == [status |-> s, val |-> v, exp |-> e]
NoResp == Resp(None, None, NoExpiresIn)
Status(s) == Resp(s, None, NoExpiresIn)

\* the ids confirmed once request r was answered with a: the existence check
\* of an id answered 200 (line 85), or its creation POST answered 201
\* (line 128)
Confirm(r, a) ==
    CASE r.kind = "check_user" /\ a.status = "200" -> confirmed \cup {r.user}
      [] r.kind = "create_user" /\ a.status = "201" -> confirmed \cup {r.ref}
      [] OTHER -> confirmed

\* the step issues request r and the remote answers with response a
Http(r, a) ==
    sent' = r /\ resp' = a /\ cnt' = Count(r) /\ confirmed' = Confirm(r, a)
\* the step issues no request
NoHttp == UNCHANGED <<sent, resp, cnt, confirmed>>

(***************************************************************************)
(* Calls and returns.                                                      *)
(***************************************************************************)
\* the running method returns v (or raises v) to its caller
Return(v) ==
    IF stack = <<>>
    THEN /\ pc' = "idle"
         /\ result' = v
         /\ ret' = None
         /\ stack' = <<>>
         /\ sk' = None
         /\ product' = None
         /\ depth' = 0
    ELSE /\ pc' = Head(stack)
         /\ stack' = Tail(stack)
         /\ ret' = v
         /\ UNCHANGED <<result, sk, product, depth>>

\* control passes to the method at label l, which returns to label back
CallInner(l, back) ==
    /\ pc' = l
    /\ stack' = <<back>> \o stack
    /\ UNCHANGED <<result, ret, sk, product, depth>>

\* control passes to label l of the running method
Goto(l) == pc' = l /\ UNCHANGED <<stack, result, ret, sk, product, depth>>

\* the running method raises v: nothing on the stack catches it
Raise(v) ==
    /\ pc' = "idle"
    /\ result' = v
    /\ ret' = None
    /\ stack' = <<>>
    /\ sk' = None
    /\ product' = None
    /\ depth' = 0

\* the caller invokes method m of instance i: control enters at label l
\* with return positions st, subscription key s and product p
Invoke(i, m, l, st, s, p) ==
    /\ pc = "idle"
    /\ inst[i].kind # "none"
    /\ cur' = i
    /\ top' = m
    /\ pc' = l
    /\ stack' = st
    /\ sk' = s
    /\ product' = p
    /\ depth' = 0
    /\ ret' = None
    /\ result' = None
    /\ sent' = NoReq
    /\ resp' = NoResp
    /\ cnt' = NoCnt
    /\ atCall' = AtCall(inst[i], now, s)
    /\ UNCHANGED <<now, uuidCount, confirmed>>

(***************************************************************************)
(* Base (src/mtn/base.py).                                                 *)
(***************************************************************************)
\* check_api_user_exists: True only for status 200
check_api_user_exists(s) == s = "200"

\* (mutant) an id is generated although the instance holds one
HasApiUser_Never(o) == FALSE

\* line 104: if self._api_user
HasApiUser(o) == Truthy(o.api_user)

\* Base._create_api_user, lines 103-114: check the id the instance has, or
\* generate one
create_api_user_entry ==
    /\ pc = "cau_entry"
    /\ IF HasApiUser(self)
       THEN \E s \in CheckStatuses :
              /\ Http(CheckUserReq(self.api_user), Status(s))
              /\ IF check_api_user_exists(s)
                 THEN Return("True")
                 ELSE Goto("cau_post")
              /\ UNCHANGED <<inst, uuidCount>>
       ELSE /\ uuidCount < MaxUuid
            /\ inst' = [inst EXCEPT ![cur].api_user = Uuid(uuidCount + 1)]
            /\ uuidCount' = uuidCount + 1
            /\ NoHttp
            /\ Goto("cau_post")
    /\ UNCHANGED <<now, cur, top, atCall>>

\* line 135: a 409 is retried unless the id was given to Base.__init__
RetryOnConflict(o) == ~o.provided

\* Base._create_api_user, lines 116-153: the creation POST.  The retry is a
\* recursive call whose result is returned as it is; at RecursionLimit the
\* interpreter raises RecursionError, which line 151 catches.
create_api_user_post ==
    /\ pc = "cau_post"
    /\ \E s \in CreateUserStatuses :
         /\ Http(CreateUserReq(self.api_user), Status(s))
         /\ CASE s = "201" -> Return("True")
              [] s = "409" /\ RetryOnConflict(self) ->
                    IF depth < RecursionLimit
                    THEN /\ pc' = "cau_entry"
                         /\ depth' = depth + 1
                         /\ UNCHANGED <<stack, result, ret, sk, product>>
                    ELSE Return("False")
              [] OTHER -> Return("False")
    /\ UNCHANGED <<inst, now, uuidCount, cur, top, atCall>>

\* (mutant) the check of line 165 left out
HasApiKey_Never(o) == FALSE

\* line 165: an API key the instance already holds is kept
HasApiKey(o) == Truthy(o.api_key)

\* line 160: if not self._api_user
MissingUser(o) == ~Truthy(o.api_user)

\* Base._create_api_key
create_api_key_step ==
    /\ pc = "cak"
    /\ IF MissingUser(self)
       THEN NoHttp /\ Return("False") /\ UNCHANGED inst
       ELSE IF HasApiKey(self)
       THEN NoHttp /\ Return("True") /\ UNCHANGED inst
       ELSE \E s \in CreateKeyStatuses :
              IF s = "201"
              THEN \E k \in IssuedKeys \cup {None} :
                     /\ Http(CreateKeyReq(self.api_user), Resp(s, k, NoExpiresIn))
                     /\ inst' = [inst EXCEPT ![cur].api_key = k]
                     /\ Return("True")
              ELSE /\ Http(CreateKeyReq(self.api_user), Status(s))
                   /\ UNCHANGED inst
                   /\ Return("False")
    /\ UNCHANGED <<now, uuidCount, cur, top, atCall>>

\* line 216: datetime.now() + timedelta(seconds=int(token_expiry))
ExpiryTime(t, e) == t + e

\* (mutant) only the api_user is required
MissingCredentials_UserOnly(o) == ~Truthy(o.api_user)

\* line 200: if not self._api_user or not self._api_key
MissingCredentials(o) == ~Truthy(o.api_user) \/ ~Truthy(o.api_key)

\* Base._generate_token.  On 200 line 214 stores access_token, then line 216
\* raises TypeError for a body without expires_in, which line 226 catches.
generate_token_step ==
    /\ pc = "gt"
    /\ IF MissingCredentials(self)
       THEN NoHttp /\ Return(None) /\ UNCHANGED inst
       ELSE \E s \in TokenStatuses :
              IF s = "200"
              THEN \E a \in TokensOf(product) \cup {None},
                      e \in ExpiresIn \cup {NoExpiresIn} :
                     /\ Http(TokenReq(product, self.api_user, self.api_key),
                             Resp(s, a, e))
                     /\ IF e = NoExpiresIn
                        THEN /\ inst' = [inst EXCEPT ![cur].token = a]
                             /\ Return(None)
                        ELSE /\ inst' = [inst EXCEPT
                                           ![cur].token = a,
                                           ![cur].expiry = ExpiryTime(now, e)]
                             /\ Return(a)
              ELSE /\ Http(TokenReq(product, self.api_user, self.api_key),
                           Status(s))
                   /\ UNCHANGED inst
                   /\ Return(None)
    /\ UNCHANGED <<now, uuidCount, cur, top, atCall>>


\* the caller invokes Base._create_api_user(subscription_key)
call_create_api_user(i, s) ==
    /\ Invoke(i, "_create_api_user", "cau_entry", <<>>, s, None)
    /\ UNCHANGED inst

\* the caller invokes Base._create_api_key(subscription_key)
call_create_api_key(i, s) ==
    /\ Invoke(i, "_create_api_key", "cak", <<>>, s, None)
    /\ UNCHANGED inst

\* the caller invokes Base._generate_token(subscription_key, product)
call_generate_token(i, s, p) ==
    /\ Invoke(i, "_generate_token", "gt", <<>>, s, p)
    /\ UNCHANGED inst

\* (mutant) the credentials are kept in one dict shared by all instances
setup_api_credentials_Borg(i, s, uid, key) ==
    /\ Invoke(i, "setup_api_credentials", "gt", <<"sac_after_token">>,
              s, "collection")
    /\ inst' = [j \in DOMAIN inst |->
                  [inst[j] EXCEPT !.api_user = uid, !.api_key = key]]

\* (mutant) the supplied id replaces the api_user, the cached key stays
setup_api_credentials_UserOnly(i, s, uid, key) ==
    LET both == Truthy(uid) /\ Truthy(key) IN
    /\ Invoke(i, "setup_api_credentials",
              IF both THEN "gt" ELSE "cau_entry",
              IF both THEN <<"sac_after_token">> ELSE <<"sac_after_user">>,
              s, IF both THEN "collection" ELSE None)
    /\ inst' = IF both
               THEN [inst EXCEPT ![i].api_user = uid,
                                 ![i].api_key = IF Truthy(@) THEN @ ELSE key]
               ELSE inst

\* Base.setup_api_credentials, lines 277-291: the entry
setup_api_credentials(i, s, uid, key) ==
    LET both == Truthy(uid) /\ Truthy(key) IN
    /\ Invoke(i, "setup_api_credentials",
              IF both THEN "gt" ELSE "cau_entry",
              IF both THEN <<"sac_after_token">> ELSE <<"sac_after_user">>,
              s, IF both THEN "collection" ELSE None)
    /\ inst' = IF both
               THEN [inst EXCEPT ![i].api_user = uid, ![i].api_key = key]
               ELSE inst

\* lines 283-291: the supplied credentials verified, or the fall back
setup_after_token ==
    /\ pc = "sac_after_token"
    /\ NoHttp
    /\ IF Truthy(ret)
       THEN Return("True")
       ELSE /\ pc' = "cau_entry"
            /\ stack' = <<"sac_after_user">> \o stack
            /\ UNCHANGED <<result, ret, sk, product, depth>>
    /\ UNCHANGED <<inst, now, uuidCount, cur, top, atCall>>

\* lines 291-294
setup_after_user ==
    /\ pc = "sac_after_user"
    /\ NoHttp
    /\ IF ret = "True" THEN CallInner("cak", "sac_after_key") ELSE Return("False")
    /\ UNCHANGED <<inst, now, uuidCount, cur, top, atCall>>

\* lines 294-298
setup_after_key ==
    /\ pc = "sac_after_key"
    /\ NoHttp
    /\ IF ret = "True" THEN Return("True") ELSE Return("False")
    /\ UNCHANGED <<inst, now, uuidCount, cur, top, atCall>>

(***************************************************************************)
(* Collection (src/mtn/collections/collection.py).                         *)
(***************************************************************************)
\* subscription_key or self._subscription_key
SubscriptionKey(s, o) == IF Truthy(s) THEN s ELSE o.subscription_key

\* Collection.create_api_key, lines 94-104
collection_create_api_key_entry ==
    /\ pc = "cck_entry"
    /\ NoHttp
    /\ IF ~Truthy(SubscriptionKey(sk, self))
       THEN Raise("ValueError")
       ELSE /\ pc' = "cau_entry"
            /\ stack' = <<"cck_after_user">> \o stack
            /\ sk' = SubscriptionKey(sk, self)
            /\ UNCHANGED <<result, ret, product, depth>>
    /\ UNCHANGED <<inst, now, uuidCount, cur, top, atCall>>

\* (mutant) the result of _create_api_user is not looked at
UserCreated_Ignored(r) == TRUE

\* line 106: if not user_created
UserCreated(r) == r = "True"

\* lines 106-112
collection_create_api_key_after_user ==
    /\ pc = "cck_after_user"
    /\ NoHttp
    /\ IF UserCreated(ret) THEN CallInner("cak", "cck_after_key") ELSE Return(None)
    /\ UNCHANGED <<inst, now, uuidCount, cur, top, atCall>>

\* lines 114-121
collection_create_api_key_after_key ==
    /\ pc = "cck_after_key"
    /\ NoHttp
    /\ IF ret = "True" THEN Return(self.api_key) ELSE Return(None)
    /\ UNCHANGED <<inst, now, uuidCount, cur, top, atCall>>

\* (mutant) the expiry check of line 144 inverted
ReuseToken_Inverted(o, t) == Truthy(o.token) /\ ~Truthy(token(o, t))

\* lines 142-146: the cached token is returned if the token property
\* reports it valid
ReuseToken(o, t) == Truthy(o.token) /\ Truthy(token(o, t))

\* (mutant) the API key is created although one is cached
NeedsApiKey_Always(o) == TRUE

\* line 153: if not self._api_key
NeedsApiKey(o) == ~Truthy(o.api_key)

\* Collection.generate_collection_token, lines 135-162
generate_collection_token_entry ==
    /\ pc = "gct_entry"
    /\ NoHttp
    /\ IF ~Truthy(SubscriptionKey(sk, self))
       THEN Raise("ValueError")
       ELSE IF ReuseToken(self, now)
       THEN Return(self.token)
       ELSE /\ IF NeedsApiKey(self)
               THEN /\ pc' = "cck_entry"
                    /\ stack' = <<"gct_after_key">> \o stack
                    /\ product' = product
               ELSE /\ pc' = "gt"
                    /\ stack' = <<"gct_after_token">> \o stack
                    /\ product' = "collection"
            /\ sk' = SubscriptionKey(sk, self)
            /\ UNCHANGED <<result, ret, depth>>
    /\ UNCHANGED <<inst, now, uuidCount, cur, top, atCall>>

\* lines 155-162
generate_collection_token_after_key ==
    /\ pc = "gct_after_key"
    /\ NoHttp
    /\ IF Truthy(ret)
       THEN /\ pc' = "gt"
            /\ stack' = <<"gct_after_token">> \o stack
            /\ product' = "collection"
            /\ UNCHANGED <<result, ret, sk, depth>>
       ELSE Return(None)
    /\ UNCHANGED <<inst, now, uuidCount, cur, top, atCall>>

\* lines 164-170
generate_collection_token_after_token ==
    /\ pc = "gct_after_token"
    /\ NoHttp
    /\ IF Truthy(ret)
       THEN /\ inst' = [inst EXCEPT ![cur].token = ret]
            /\ Return(ret)
       ELSE /\ UNCHANGED inst
            /\ Return(None)
    /\ UNCHANGED <<now, uuidCount, cur, top, atCall>>

\* the caller invokes Collection.create_api_key(subscription_key)
collection_create_api_key(i, s) ==
    /\ inst[i].kind = "Collection"
    /\ Invoke(i, "create_api_key", "cck_entry", <<>>, s, None)
    /\ UNCHANGED inst

\* the caller invokes Collection.generate_collection_token(subscription_key)
generate_collection_token(i, s) ==
    /\ inst[i].kind = "Collection"
    /\ Invoke(i, "generate_collection_token", "gct_entry", <<>>, s, None)
    /\ UNCHANGED inst

\* the caller reads Collection.api_key (property), lines 66-72
collection_api_key(i) ==
    LET gen == ~Truthy(inst[i].api_key) /\ Truthy(inst[i].subscription_key) IN
    /\ inst[i].kind = "Collection"
    /\ Invoke(i, "api_key", IF gen THEN "cck_entry" ELSE "akp_return",
              IF gen THEN <<"akp_return">> ELSE <<>>, None, None)
    /\ UNCHANGED inst

\* line 72: return self._api_key
collection_api_key_return ==
    /\ pc = "akp_return"
    /\ NoHttp
    /\ Return(self.api_key)
    /\ UNCHANGED <<inst, now, uuidCount, cur, top, atCall>>

(***************************************************************************)
(* Collection endpoint methods.                                            *)
(***************************************************************************)
\* "Authorization": f"Bearer {self.token}"
Bearer(o, t) == token(o, t)

EndpointReq(op, bearer, ref) ==
    [NoReq EXCEPT !.kind = "endpoint", !.op = op, !.bearer = bearer, !.ref = ref]

EndpointStatuses == {"200", "201", "202", "500", "exc"}

\* the endpoint methods that begin with "if not self.token: ... return"
CheckedOps == {"get_account_balance", "cancel_request_to_pay", "create_invoice"}

\* the status each method takes for success
SuccessStatus(op) ==
    CASE op = "create_request_to_pay" -> "202"
      [] op = "create_invoice" -> "201"
      [] OTHER -> "200"

\* what each method returns on failure and on success
Failure(op) == IF op = "cancel_request_to_pay" THEN "False" ELSE None
Success(op) == IF op = "cancel_request_to_pay" THEN "True" ELSE "json"

\* Collection.create_request_to_pay, lines 187-255: no check of the token
\* precedes the request
create_request_to_pay(i) ==
    /\ pc = "idle"
    /\ inst[i].kind = "Collection"
    /\ uuidCount < MaxUuid
    /\ uuidCount' = uuidCount + 1
    /\ cur' = i
    /\ top' = "create_request_to_pay"
    /\ \E s \in EndpointStatuses :
         /\ sent' = EndpointReq("create_request_to_pay", Bearer(inst[i], now),
                                Uuid(uuidCount + 1))
         /\ resp' = Status(s)
         /\ result' = IF s = SuccessStatus("create_request_to_pay")
                      THEN Uuid(uuidCount + 1) ELSE None
    /\ cnt' = [NoCnt EXCEPT !.ep = 1]
    /\ atCall' = AtCall(inst[i], now, None)
    /\ UNCHANGED <<inst, now, pc, stack, sk, product, depth, ret, confirmed>>

\* the caller invokes one of the checked endpoint methods
call_endpoint(i, op) ==
    /\ inst[i].kind = "Collection"
    /\ Invoke(i, op, "ep_check", <<>>, None, None)
    /\ UNCHANGED inst

\* NoValidToken: "if not self.token" (for example lines 267-269)
NoValidToken(o, t) == ~Truthy(token(o, t))

endpoint_check ==
    /\ pc = "ep_check"
    /\ NoHttp
    /\ IF NoValidToken(self, now) THEN Return(Failure(top)) ELSE Goto("ep_send")
    /\ UNCHANGED <<inst, now, uuidCount, cur, top, atCall>>

\* (mutant) a request that did not succeed is sent again
endpoint_send_Retry ==
    /\ pc = "ep_send"
    /\ \E s \in EndpointStatuses :
         /\ Http(EndpointReq(top, Bearer(self, now), "absent"), Status(s))
         /\ IF s = SuccessStatus(top)
            THEN Return(Success(top))
            ELSE IF cnt.ep < 2 THEN Goto("ep_send") ELSE Return(Failure(top))
    /\ UNCHANGED <<inst, now, uuidCount, cur, top, atCall>>

\* the headers are assembled (self.token is read again) and the request is
\* sent (for example lines 271-298)
endpoint_send ==
    /\ pc = "ep_send"
    /\ \E s \in EndpointStatuses :
         /\ Http(EndpointReq(top, Bearer(self, now), "absent"), Status(s))
         /\ IF s = SuccessStatus(top)
            THEN Return(Success(top))
            ELSE Return(Failure(top))
    /\ UNCHANGED <<inst, now, uuidCount, cur, top, atCall>>

(***************************************************************************)
(* Disbursement (src/mtn/disbursements/disbursement.py).                   *)
(***************************************************************************)
\* Disbursement.generate_disbursement_token, lines 45-53: the entry
generate_disbursement_token(i, s) ==
    LET need == ~Truthy(inst[i].api_user) \/ ~Truthy(inst[i].api_key) IN
    /\ inst[i].kind = "Disbursement"
    /\ Invoke(i, "generate_disbursement_token",
              IF need THEN "cau_entry" ELSE "gt",
              IF need THEN <<"gdt_after_user">> ELSE <<>>,
              s, "disbursement")
    /\ UNCHANGED inst

\* lines 47-50
disbursement_after_user ==
    /\ pc = "gdt_after_user"
    /\ NoHttp
    /\ IF ret = "True" THEN CallInner("cak", "gdt_after_key") ELSE Raise("Exception")
    /\ UNCHANGED <<inst, now, uuidCount, cur, top, atCall>>

\* lines 50-53
disbursement_after_key ==
    /\ pc = "gdt_after_key"
    /\ NoHttp
    /\ IF ret = "True" THEN Goto("gt") ELSE Raise("Exception")
    /\ UNCHANGED <<inst, now, uuidCount, cur, top, atCall>>

(***************************************************************************)
(* Construction, the clock, and the behaviours of the program.             *)
(***************************************************************************)
\* Base(token=..., **kwargs) or Disbursement(token=..., **kwargs)
construct_base(i, kind, tok, given, user, key, sub) ==
    /\ pc = "idle"
    /\ inst[i].kind = "none"
    /\ inst' = [inst EXCEPT ![i] = Base_init(kind, tok, given, user, key, sub)]
    /\ UNCHANGED <<now, uuidCount, cur, top, pc, stack, sk, product, depth,
                   ret, result, sent, resp, cnt, atCall, confirmed>>

\* Collection(api_user, api_key, subscription_key, token=...), lines 22-43:
\* with a subscription key and no token, generate_collection_token() runs
construct_collection(i, tok, user, key, sub) ==
    /\ pc = "idle"
    /\ inst[i].kind = "none"
    /\ inst' = [inst EXCEPT ![i] = Collection_init(tok, user, key, sub)]
    /\ cur' = i
    /\ top' = "__init__"
    /\ pc' = IF Truthy(sub) /\ ~Truthy(tok) THEN "gct_entry" ELSE "idle"
    /\ cnt' = NoCnt
    /\ atCall' = AtCall(Collection_init(tok, user, key, sub), now, None)
    /\ UNCHANGED <<now, uuidCount, stack, sk, product, depth, ret, result,
                   sent, resp, confirmed>>

\* Time passes.  The clock is read by the steps at "gt" and "ep_send", by
\* create_request_to_pay (taken from "idle") and by the steps at "gct_entry"
\* and "ep_check", which directly follow a step taken from "idle" that does
\* not read it.  A tick before any other step is the same as a tick after
\* it, so the clock advances only at these three positions.
Tick ==
    /\ now < MaxTime
    /\ pc \in {"idle", "gt", "ep_send"}
    /\ now' = now + 1
    /\ UNCHANGED <<inst, uuidCount, cur, top, pc, stack, sk, product, depth,
                   ret, result, sent, resp, cnt, atCall, confirmed>>

SubArgs == SubKeys \cup {None}

Init ==
    /\ inst = [i \in Inst |-> Unconstructed]
    /\ now = 0
    /\ uuidCount = 0
    /\ cur = 1
    /\ top = None
    /\ pc = "idle"
    /\ stack = <<>>
    /\ sk = None
    /\ product = None
    /\ depth = 0
    /\ ret = None
    /\ result = None
    /\ sent = NoReq
    /\ resp = NoResp
    /\ cnt = NoCnt
    /\ atCall = AtCall(Unconstructed, 0, None)
    /\ confirmed = {}

\* The token argument is enumerated for Collection only: of the methods
\* modelled, just Collection.__init__ (line 40) and generate_collection_token
\* (line 142) read a _token that has no expiry time.
Construct ==
    \E i \in Inst, key \in {None, SuppliedKey}, sub \in SubArgs :
       \/ \E kind \in {"Base", "Disbursement"} :
            \/ construct_base(i, kind, None, FALSE, None, key, sub)
            \/ \E user \in {None, SuppliedUser} :
                 construct_base(i, kind, None, TRUE, user, key, sub)
       \/ \E user \in {None, SuppliedUser}, tok \in {None, SuppliedToken} :
            construct_collection(i, tok, user, key, sub)

Call ==
    \E i \in Inst :
       \/ \E s \in SubKeys : call_create_api_user(i, s)
       \/ \E s \in SubKeys : call_create_api_key(i, s)
       \/ \E s \in SubKeys, p \in Products : call_generate_token(i, s, p)
       \/ \E s \in SubKeys, uid \in {None, SetupUser}, key \in {None, SetupKey} :
            setup_api_credentials(i, s, uid, key)
       \/ \E s \in SubArgs : collection_create_api_key(i, s)
       \/ \E s \in SubArgs : generate_collection_token(i, s)
       \/ collection_api_key(i)
       \/ create_request_to_pay(i)
       \/ \E op \in CheckedOps : call_endpoint(i, op)
       \/ \E s \in SubArgs : generate_disbursement_token(i, s)

Step ==
    \/ create_api_user_entry
    \/ create_api_user_post
    \/ create_api_key_step
    \/ generate_token_step
    \/ setup_after_token
    \/ setup_after_user
    \/ setup_after_key
    \/ collection_create_api_key_entry
    \/ collection_create_api_key_after_user
    \/ collection_create_api_key_after_key
    \/ generate_collection_token_entry
    \/ generate_collection_token_after_key
    \/ generate_collection_token_after_token
    \/ collection_api_key_return
    \/ endpoint_check
    \/ endpoint_send
    \/ disbursement_after_user
    \/ disbursement_after_key

Next == Construct \/ Call \/ Step \/ Tick

Spec == Init /\ [][Next]_vars

(***************************************************************************)
(* The claims.                                                             *)
(***************************************************************************)
EndpointOps == CheckedOps \cup {"create_request_to_pay"}
IsToken(v) == v \in IssuedTokens \cup {SuppliedToken}
\* the step returns from the call the caller made
CallEnds == pc # "idle" /\ pc' = "idle"

\* generate_collection_token is at its entry and the cached token is valid
GctReuseCase == pc = "gct_entry" /\ Truthy(token(self, now))
\* the step returns the cached token value, issues no request and leaves
\* the instance as it is
ReusedWithoutRequest ==
    /\ pc' = "idle"
    /\ result' = self.token
    /\ cnt' = NoCnt
    /\ sent' = NoReq
    /\ inst' = inst

\* C1 (as amended): generate_collection_token called while the cached token
\* is valid issues no HTTP request; when a subscription key is passed or set
\* on the instance it returns exactly the cached token value (without one it
\* raises ValueError); and a token value it returns while that token is
\* valid is the cached value, so the next call with no elapsed time returns
\* the identical value and adds no request.
C1_IdempotentReuse ==
    [][ /\ GctReuseCase => cnt' = NoCnt /\ sent' = NoReq /\ inst' = inst
        /\ GctReuseCase /\ Truthy(SubscriptionKey(sk, self))
              => ReusedWithoutRequest
        /\ GctReuseCase /\ ~Truthy(SubscriptionKey(sk, self))
              => pc' = "idle" /\ result' = "ValueError"
        /\ CallEnds /\ top = "generate_collection_token" /\ IsToken(result')
              => result' = inst'[cur].token
      ]_vars

\* C1 witness: a call of generate_collection_token that found a valid token
\* has returned it without a request
C1_Witness ==
    /\ pc = "idle"
    /\ top = "generate_collection_token"
    /\ atCall.token = "valid"
    /\ result = self.token
    /\ cnt = NoCnt

\* C1 as stated: generate_collection_token called while the cached token is
\* valid always returns the cached token value with zero requests
C1_Original == [][GctReuseCase => ReusedWithoutRequest]_vars

\* C2: every request of a Collection endpoint method carries a bearer token
\* that is valid when the request is sent
C2_ValidBearerOnEveryRequest ==
    sent.kind = "endpoint" => Truthy(sent.bearer)

\* C3: an endpoint method invoked while no valid token is available issues
\* no request to the product endpoint and returns its failure result
C3_NoRequestWithoutToken ==
    top \in EndpointOps /\ atCall.token # "valid"
        => cnt.ep = 0 /\ (pc = "idle" => result = Failure(top))

\* C4: an endpoint method invoked while the cached token has expired, with
\* api_user, api_key and subscription key set, does not finish without a
\* token exchange
C4_TransparentRegeneration ==
    /\ pc = "idle"
    /\ top \in EndpointOps
    /\ atCall.token = "expired"
    /\ atCall.api_user /\ atCall.api_key /\ atCall.sub
    => cnt.tok >= 1

\* C5: a token obtained at clock T with expires_in = E has expiry T + E; it
\* is reported valid exactly at the clock values t < T + E; and Base.token,
\* Base.token_status and the sandbox variant's token_status all use this
\* strict comparison
C5_StrictValidityEverywhere ==
    [][ /\ pc = "gt" /\ resp'.status = "200" /\ resp'.exp # NoExpiresIn
             => inst'[cur].expiry = now + resp'.exp
        /\ \A i \in Inst :
             LET o == inst'[i] IN
             Truthy(o.token) /\ o.expiry # NoExpiry
                => /\ Truthy(token(o, now')) <=> now' < o.expiry
                   /\ token_status(o, now') <=> now' < o.expiry
                   /\ sandbox_token_status(o, now') <=> now' < o.expiry
      ]_vars

\* a call of generate_collection_token that began with an expired token
\* and a cached api_key
GctRegenCase ==
    /\ top = "generate_collection_token"
    /\ atCall.token = "expired"
    /\ atCall.api_key

CallerSupplied(id) == id \in {SuppliedUser, SetupUser}

\* C7: when the API user id was supplied by the caller and the creation
\* POST answers 409, user creation reports failure and issues no further
\* existence check and no further creation POST
C7_SuppliedIdConflictTerminal ==
    [][ pc = "cau_post" /\ resp'.status = "409" /\ CallerSupplied(self.api_user)
          => /\ pc' # "cau_entry"
             /\ IF stack = <<>> THEN result' = "False" ELSE ret' = "False"
      ]_vars

\* C8: when no id was supplied and the creation POST for the generated id
\* answers 409, exactly one more creation POST follows, and it carries a
\* newly generated id, different from the id of the first attempt
C8_RetryWithNewId ==
    [][ /\ pc = "cau_entry" /\ depth >= 1 /\ ~CallerSupplied(self.api_user)
             => pc' = "cau_post"
        /\ pc = "cau_post" /\ cnt.user >= 1 /\ ~CallerSupplied(self.api_user)
             => cnt.user = 1 /\ sent'.ref # cnt.ref
      ]_vars

\* C9: one invocation of _create_api_user issues at most two creation POSTs
C9_AtMostTwoCreationPosts == cnt.user <= 2

\* the step is the entry of setup_api_credentials on instance i
SetupEntry(i) ==
    pc = "idle" /\ pc' # "idle" /\ cur' = i /\ top' = "setup_api_credentials"

\* C10: once an api_key is cached on an instance, no step of any operation
\* on it issues a key-generation request, and the cached api_key keeps its
\* value (setup_api_credentials, which stores the key its caller passes, is
\* not among the operations of the claim)
C10_KeyNonRotation ==
    [][ \A i \in Inst :
          Truthy(inst[i].api_key)
             => /\ inst'[i].api_key = inst[i].api_key \/ SetupEntry(i)
                /\ cur = i /\ cur' = i => cnt'.key # cnt.key + 1
      ]_vars

\* C10 witness: _create_api_key, called with an api_key cached, returned
\* True without a request
C10_Witness ==
    /\ pc = "idle"
    /\ top = "_create_api_key"
    /\ atCall.api_key
    /\ result = "True"
    /\ cnt = NoCnt
    /\ Truthy(self.api_key)

\* the endpoint methods that POST or DELETE
MutatingOps == {"create_request_to_pay", "create_invoice", "cancel_request_to_pay"}
\* the step sends the request of an endpoint method (now' = now: it is not
\* a step of the clock)
EndpointRequestStep ==
    \/ pc = "ep_send" /\ now' = now
    \/ pc = "idle" /\ pc' = "idle" /\ top' = "create_request_to_pay"
                   /\ uuidCount' # uuidCount

\* C11: every request of a mutating endpoint method carries an
\* X-Reference-Id, and its value differs from the X-Reference-Id of the
\* request sent before it
C11_FreshReferenceId ==
    [][ EndpointRequestStep /\ sent'.op \in MutatingOps
          => sent'.ref # "absent" /\ sent'.ref # sent.ref
      ]_vars

\* MoMoAPIError(status_code, ...) of src/mtn/utils/exceptions.py, as a result
MoMoAPIError(s) == IF s = "500" THEN "MoMoAPIError(500)" ELSE "MoMoAPIError"
\* statuses of the 2xx class
Is2xx(s) == s \in {"200", "201", "202"}
\* the methods that handle the response of their own request
DirectOps ==
    EndpointOps \cup {"_create_api_user", "_create_api_key", "_generate_token"}
\* a call of method top has ended and its last request was answered with s
EndedAfter(s) ==
    /\ pc = "idle"
    /\ top \in DirectOps
    /\ cnt # NoCnt
    /\ resp.status = s

\* C12: when an endpoint request is answered with a non-2xx status, the
\* result the caller gets is an error carrying that status code
C12_ErrorFidelity ==
    \A s \in EndpointStatuses :
       top \in EndpointOps /\ EndedAfter(s) /\ ~Is2xx(s) /\ s # "exc"
          => result = MoMoAPIError(s)

\* what method m returns when the remote answers with a non-2xx status
StatusFailureResult(m) ==
    CASE m \in EndpointOps -> Failure(m)
      [] m = "_generate_token" -> None
      [] OTHER -> "False"

\* C13: the result of a call whose request got no response at all differs
\* from the result the same method gives for a non-2xx answer
C13_TransportFailureDistinct ==
    EndedAfter("exc") => result # StatusFailureResult(top)

\* C14: a key-generation request for API user id U is issued only after the
\* remote confirmed U (existence check answered 200, or creation POST
\* answered 201)
C14_KeyOnlyAfterConfirmedUser ==
    [][ cnt'.key = cnt.key + 1 /\ sent'.kind = "create_key"
          => sent'.user \in confirmed
      ]_vars

\* the step returns v from the running method
Returns(v) ==
    IF stack = <<>>
    THEN pc' = "idle" /\ result' = v
    ELSE pc' = Head(stack) /\ ret' = v

\* C15: _create_api_key entered while no api_user is set returns False, and
\* _generate_token entered while api_user or api_key is missing returns
\* None; neither issues a request, and api_user, api_key, token and token
\* expiry stay as they are (now' = now: the step is the method's, not the
\* clock's)
C15_PrerequisiteMissing ==
    [][ /\ pc = "cak" /\ ~Truthy(self.api_user)
             => Returns("False") /\ cnt' = cnt /\ sent' = sent /\ inst' = inst
        /\ pc = "gt" /\ now' = now
              /\ (~Truthy(self.api_user) \/ ~Truthy(self.api_key))
             => Returns(None) /\ cnt' = cnt /\ sent' = sent /\ inst' = inst
      ]_vars

\* C15 witness: _generate_token, called with an api_user but no api_key,
\* has returned None without a request
C15_Witness ==
    /\ pc = "idle"
    /\ top = "_generate_token"
    /\ atCall.api_user /\ ~atCall.api_key
    /\ result = None
    /\ cnt = NoCnt
    /\ ~Truthy(self.api_key)

\* C16: in _create_api_user with an id already set, an existence check
\* answered 200 ends the call with True and no creation POST; a creation
\* POST follows the check only when the check answered 404; the POST
\* carries the id that was checked; and the call issues one creation POST
\* at most
C16_ReuseOfPreferredId ==
    [][ /\ pc = "cau_entry" /\ Truthy(self.api_user) /\ resp'.status = "200"
             => Returns("True") /\ cnt'.user = cnt.user
        /\ pc = "cau_post" /\ sent.kind = "check_user"
             => /\ resp.status = "404"
                /\ sent'.ref = sent.user
                /\ cnt'.user = 1
      ]_vars

\* the step assigns the credentials given to setup_api_credentials
SetupReplaces(i) ==
    /\ SetupEntry(i)
    /\ inst'[i].api_user = SetupUser
    /\ inst'[i].api_key = SetupKey

Pair == {1, 2}

InitPair ==
    /\ inst = [i \in Pair |-> Unconstructed]
    /\ now = 0
    /\ uuidCount = 0
    /\ cur = 1
    /\ top = None
    /\ pc = "idle"
    /\ stack = <<>>
    /\ sk = None
    /\ product = None
    /\ depth = 0
    /\ ret = None
    /\ result = None
    /\ sent = NoReq
    /\ resp = NoResp
    /\ cnt = NoCnt
    /\ atCall = AtCall(Unconstructed, 0, None)
    /\ confirmed = {}

\* the first instance is built and used in every way; the second is a
\* Collection holding supplied credentials, which exchanges them for tokens
ConstructPair ==
    \/ \E user \in {None, SuppliedUser}, key \in {None, SuppliedKey} :
         construct_base(1, "Base", None, TRUE, user, key, None)
    \/ construct_collection(2, SuppliedToken, SuppliedUser, SuppliedKey, None)

CallPair ==
    \E s \in SubKeys :
       \/ call_create_api_user(1, s)
       \/ call_create_api_key(1, s)
       \/ call_generate_token(1, s, "collection")
       \/ setup_api_credentials(1, s, SetupUser, SetupKey)
       \/ call_generate_token(2, s, "collection")

StepPair ==
    \/ create_api_user_entry
    \/ create_api_user_post
    \/ create_api_key_step
    \/ generate_token_step
    \/ setup_after_token
    \/ setup_after_user
    \/ setup_after_key

NextPair == ConstructPair \/ CallPair \/ StepPair \/ Tick

SpecPair == InitPair /\ [][NextPair]_vars

TokenProduct(v) ==
    CASE v \in TokensOf("collection") -> "collection"
      [] v \in TokensOf("disbursement") -> "disbursement"
      [] OTHER -> None
\* self._product of a Collection and of a Disbursement
ProductOf(kind) ==
    CASE kind = "Collection" -> "collection"
      [] kind = "Disbursement" -> "disbursement"
      [] OTHER -> None

\* C19: a token exchange for one product leaves a still-valid cached token
\* of another product cached and valid, and the token a Collection or a
\* Disbursement holds as valid was issued by the token endpoint of its own
\* product
C19_PerProductTokenCache ==
    [][ /\ pc = "gt" /\ now' = now
              /\ Truthy(token(self, now))
              /\ TokenProduct(self.token) # product
             => token(inst'[cur], now') = token(self, now)
        /\ \A i \in Inst :
              ProductOf(inst'[i].kind) # None /\ Truthy(token(inst'[i], now'))
                 => TokenProduct(inst'[i].token) = ProductOf(inst'[i].kind)
      ]_vars

\* C20: a step of _generate_token either leaves the cached token and the
\* cached expiry both as they are, or replaces both from the one 200
\* response it received
C20_NoPartialTokenUpdate ==
    [][ pc = "gt" /\ now' = now
          => \/ /\ inst'[cur].token = self.token
                /\ inst'[cur].expiry = self.expiry
             \/ /\ resp'.status = "200"
                /\ inst'[cur].token = resp'.val
                /\ resp'.exp # NoExpiresIn
                /\ inst'[cur].expiry = now + resp'.exp
      ]_vars

\* a call of generate_collection_token (by the caller or by __init__) that
\* began with no api_key and no token
GctFromScratch ==
    /\ top \in {"generate_collection_token", "__init__"}
    /\ ~atCall.api_key
    /\ atCall.token = "none"
\* the latest request provisioned the user: the existence check answered
\* 200 or the creation POST answered 201
UserProvisioned ==
    \/ sent.kind = "check_user" /\ resp.status = "200"
    \/ sent.kind = "create_user" /\ resp.status = "201"

\* C21: in a generate_collection_token that began with no api_key and no
\* token, user provisioning requests come before the key request and the
\* key request before the token exchange; the key request follows only a
\* provisioning request that succeeded and the token exchange only a key
\* request answered 201; and a call that began without a user id, whose
\* first request is then the creation POST, and that ends with a token
\* without a retry of the user creation (a retry begins with an existence
\* check) has issued exactly three requests, its result being the
\* access_token of the exchange response, now cached
C21_AcquisitionOrder ==
    [][ GctFromScratch
          => /\ cnt'.check # cnt.check \/ cnt'.user # cnt.user
                   => cnt'.key = 0 /\ cnt'.tok = 0
             /\ cnt'.key = cnt.key + 1
                   => cnt.key = 0 /\ cnt.tok = 0 /\ UserProvisioned
             /\ cnt'.tok = cnt.tok + 1
                   => /\ cnt.tok = 0 /\ cnt.key = 1
                      /\ sent.kind = "create_key" /\ resp.status = "201"
             /\ pc = "cau_post" /\ ~atCall.api_user /\ cnt.user = 0
                   => cnt.check = 0
             /\ CallEnds /\ ~atCall.api_user /\ cnt'.check = 0
                /\ IsToken(result')
                   => /\ cnt'.user = 1 /\ cnt'.key = 1 /\ cnt'.tok = 1
                      /\ result' = resp'.val
                      /\ inst'[cur].token = resp'.val
      ]_vars

\* C21 witness: such a call, begun without a user id, has ended after the
\* three requests with the token of the exchange cached and valid
C21_Witness ==
    /\ pc = "idle"
    /\ GctFromScratch
    /\ top = "generate_collection_token"
    /\ ~atCall.api_user
    /\ cnt.check = 0 /\ cnt.user = 1 /\ cnt.key = 1 /\ cnt.tok = 1
    /\ IsToken(result)
    /\ result = resp.val
    /\ self.token = result
    /\ Truthy(token(self, now))

\* C22: an invocation of an endpoint method issues at most one request to
\* the product endpoint, and the step that issues it returns to the caller
\* whatever the response
C22_NoDispatcherRetry ==
    [][ /\ top' \in EndpointOps => cnt'.ep <= 1
        /\ EndpointRequestStep => pc' = "idle" /\ cnt'.ep = 1
      ]_vars

\* C22 witness: a checked endpoint method has returned its failure result
\* after one request that was answered 500
C22_Witness ==
    /\ pc = "idle"
    /\ top \in CheckedOps
    /\ cnt.ep = 1
    /\ resp.status = "500"
    /\ result = Failure(top)

(***************************************************************************)
(* Two callers (threads) running Collection.generate_collection_token on   *)
(* one instance at the same time.  The code takes no lock, so the callers  *)
(* interleave at every request: a request is sent in one step and its      *)
(* response handled in a later one.  In this specification pc and result   *)
(* hold one value per caller, sent is the set of callers whose token       *)
(* exchange is in flight, and cnt counts the requests of both callers.     *)
(* The instance is a Collection holding a supplied id; the retry after a   *)
(* 409 is left out.                                                        *)
(***************************************************************************)
Threads == {1, 2}

InitConc ==
    /\ \E key \in {None, SuppliedKey}, tok \in {None, "tokA"} :
         inst = [i \in Inst |->
                   [Collection_init(None, SuppliedUser, key, "sk")
                      EXCEPT !.token = tok,
                             !.expiry = IF tok = None THEN NoExpiry ELSE 0]]
    /\ now \in 0..MaxTime
    /\ pc = [t \in Threads |-> "gct_entry"]
    /\ result = [t \in Threads |-> None]
    /\ sent = {}
    /\ cnt = NoCnt
    /\ uuidCount = 0
    /\ cur = 1
    /\ top = "generate_collection_token"
    /\ stack = <<>>
    /\ sk = None
    /\ product = "collection"
    /\ depth = 0
    /\ ret = None
    /\ resp = NoResp
    /\ atCall = AtCall(Unconstructed, 0, None)
    /\ confirmed = {}

\* caller t moves to label l
ThreadGoto(t, l) == pc' = [pc EXCEPT ![t] = l]
\* caller t gets v as the result of generate_collection_token
ThreadReturn(t, v) ==
    /\ pc' = [pc EXCEPT ![t] = "done"]
    /\ result' = [result EXCEPT ![t] = v]

\* collection.py lines 142-155: reuse of a valid token, else key or token
conc_entry(t) ==
    /\ pc[t] = "gct_entry"
    /\ IF ReuseToken(self, now)
       THEN ThreadReturn(t, self.token)
       ELSE /\ ThreadGoto(t, IF NeedsApiKey(self) THEN "cau_entry" ELSE "gt")
            /\ UNCHANGED result
    /\ UNCHANGED <<inst, sent, cnt>>

\* base.py lines 104-110: the existence check of the id the instance holds
conc_check_user(t) ==
    /\ pc[t] = "cau_entry"
    /\ \E s \in CheckStatuses :
         ThreadGoto(t, IF check_api_user_exists(s) THEN "cak" ELSE "cau_post")
    /\ cnt' = [cnt EXCEPT !.check = @ + 1]
    /\ UNCHANGED <<inst, sent, result>>

\* base.py lines 116-153: the creation POST; collection.py lines 106-108
conc_create_user(t) ==
    /\ pc[t] = "cau_post"
    /\ \E s \in CreateUserStatuses \ {"409"} :
         IF s = "201"
         THEN ThreadGoto(t, "cak") /\ UNCHANGED result
         ELSE ThreadReturn(t, None)
    /\ cnt' = [cnt EXCEPT !.user = @ + 1]
    /\ UNCHANGED <<inst, sent>>

\* base.py lines 160-174: the key request is sent unless a key is cached
conc_key_send(t) ==
    /\ pc[t] = "cak"
    /\ IF HasApiKey(self)
       THEN ThreadGoto(t, "gt") /\ UNCHANGED cnt
       ELSE ThreadGoto(t, "cak_wait") /\ cnt' = [cnt EXCEPT !.key = @ + 1]
    /\ UNCHANGED <<inst, sent, result>>

\* base.py lines 176-194: the response to the key request;
\* collection.py lines 114-121 and 156-158
conc_key_recv(t) ==
    /\ pc[t] = "cak_wait"
    /\ \E s \in CreateKeyStatuses :
         IF s = "201"
         THEN \E k \in IssuedKeys :
                /\ inst' = [inst EXCEPT ![cur].api_key = k]
                /\ ThreadGoto(t, "gt")
                /\ UNCHANGED result
         ELSE /\ UNCHANGED inst
              /\ ThreadReturn(t, None)
    /\ UNCHANGED <<sent, cnt>>

\* base.py lines 200-210: the token exchange is sent
conc_token_send(t) ==
    /\ pc[t] = "gt"
    /\ IF MissingCredentials(self)
       THEN ThreadReturn(t, None) /\ UNCHANGED <<sent, cnt>>
       ELSE /\ ThreadGoto(t, "gt_wait")
            /\ sent' = sent \cup {t}
            /\ cnt' = [cnt EXCEPT !.tok = @ + 1]
            /\ UNCHANGED result
    /\ UNCHANGED inst

\* base.py lines 211-228: the response to the token exchange;
\* collection.py lines 164-170
conc_token_recv(t) ==
    /\ pc[t] = "gt_wait"
    /\ sent' = sent \ {t}
    /\ \E s \in TokenStatuses :
         IF s = "200"
         THEN \E a \in TokensOf("collection"), e \in ExpiresIn :
                /\ inst' = [inst EXCEPT ![cur].token = a,
                                        ![cur].expiry = ExpiryTime(now, e)]
                /\ ThreadReturn(t, a)
         ELSE /\ UNCHANGED inst
              /\ ThreadReturn(t, None)
    /\ UNCHANGED cnt

\* what the callers of generate_collection_token leave alone
ConcFrame ==
    UNCHANGED <<now, uuidCount, cur, top, stack, sk, product, depth, ret,
                resp, atCall, confirmed>>

NextConc ==
    \/ \E t \in Threads : conc_entry(t) /\ ConcFrame
    \/ \E t \in Threads : conc_check_user(t) /\ ConcFrame
    \/ \E t \in Threads : conc_create_user(t) /\ ConcFrame
    \/ \E t \in Threads : conc_key_send(t) /\ ConcFrame
    \/ \E t \in Threads : conc_key_recv(t) /\ ConcFrame
    \/ \E t \in Threads : conc_token_send(t) /\ ConcFrame
    \/ \E t \in Threads : conc_token_recv(t) /\ ConcFrame

SpecConc == InitConc /\ [][NextConc]_vars

\* C23: with two callers of generate_collection_token on one instance, at
\* most one token exchange is in flight at any time, at most one user
\* creation and one key generation request is issued, and two callers that
\* both obtained a token obtained the same one
C23_SingleFlight ==
    /\ Cardinality(sent) <= 1
    /\ cnt.user <= 1
    /\ cnt.key <= 1
    /\ \A t, u \in Threads :
          pc[t] = "done" /\ pc[u] = "done"
             /\ IsToken(result[t]) /\ IsToken(result[u])
             => result[t] = result[u]


\* C24: generate_disbursement_token called while the instance holds a valid
\* token issues no token-exchange request and returns the cached token
C24_DisbursementTokenCaching ==
    [][ top' = "generate_disbursement_token" /\ atCall'.token = "valid"
          => /\ cnt'.tok = 0
             /\ CallEnds => result' = self.token
      ]_vars

\* C25: generate_disbursement_token either raises or returns a bearer token
\* that is valid when it returns; it never returns None
C25_DisbursementNeverNone ==
    [][ CallEnds /\ top = "generate_disbursement_token"
          => \/ result' = "Exception"
             \/ IsToken(result') /\ token(inst'[cur], now') = result'
      ]_vars


\* the step constructs a Collection with a subscription key and runs no
\* automatic token generation
ConstructionSkipsGeneration ==
    /\ pc = "idle"
    /\ inst[cur'].kind = "none"
    /\ top' = "__init__"
    /\ Truthy(inst'[cur'].subscription_key)
    /\ pc' = "idle"

\* C26: construction of a Collection with a subscription key skips the
\* automatic token generation only if the token property of the new
\* instance is non-None
C26_SkipOnlyWithValidToken ==
    [][ ConstructionSkipsGeneration => Truthy(token(inst'[cur'], now')) ]_vars


\* setup_api_credentials returns True after the credentials it was given
\* failed verification (the token exchange of line 281 was sent and the
\* method went on to the fall back)
SetupTrueAfterFailedVerification ==
    /\ pc = "sac_after_key"
    /\ top = "setup_api_credentials"
    /\ cnt.tok = 1
    /\ pc' = "idle"
    /\ result' = "True"

\* C27: when the supplied credentials failed verification,
\* setup_api_credentials returns True only if a key-generation request was
\* issued and the cached api_key is no longer the key that failed
C27_FallbackObtainsNewKey ==
    [][ SetupTrueAfterFailedVerification
          => cnt.key = 1 /\ inst'[cur].api_key # SetupKey
      ]_vars


\* C28: on every constructed instance token_status() is True exactly when
\* the token property is non-None
C28_StatusAgreesWithToken ==
    \A i \in Inst :
       inst[i].kind # "none"
          => (token_status(inst[i], now) <=> Truthy(token(inst[i], now)))


\* the api_key of instance i is one the key-generation endpoint issued
KeyIssued(o) == o.api_key \in IssuedKeys
\* the step stores on instance i the key that the key-generation request
\* for the instance's api_user was answered with
KeyStoredFor(i) ==
    /\ pc = "cak"
    /\ cur = i
    /\ sent' = CreateKeyReq(inst[i].api_user)
    /\ resp'.status = "201"
    /\ inst'[i].api_user = inst[i].api_user

\* C29: a key issued by the key-generation endpoint is cached only by the
\* step whose request named the instance's api_user; while such a key is
\* cached the api_user changes only together with the key; and every token
\* exchange sends the api_user and api_key cached at that moment
C29_KeyUserPairing ==
    [][ /\ \A i \in Inst :
             KeyIssued(inst'[i]) /\ inst'[i].api_key # inst[i].api_key
                => KeyStoredFor(i)
        /\ \A i \in Inst :
             KeyIssued(inst[i]) /\ inst'[i].api_user # inst[i].api_user
                => ~KeyIssued(inst'[i])
        /\ cnt'.tok = cnt.tok + 1
             => sent'.user = self.api_user /\ sent'.key = self.api_key
      ]_vars
C29_Witness ==
    /\ pc = "idle"
    /\ sent.kind = "token"
    /\ KeyIssued(self)
    /\ sent.key = self.api_key
    /\ sent.user = self.api_user
    /\ self.api_user = Uuid(1)


(***************************************************************************)
(* Sandbox (src/mtn/sandbox/sandbox.py): static and class methods, which   *)
(* touch no instance.  In this specification ret holds the locals of the   *)
(* running method (the referenceId of the created user and the apiKey),    *)
(* and product keeps the product argument after the call has ended.        *)
(***************************************************************************)
\* the keys of product_endpoints, lines 100-104
SandboxProducts == {"collection", "disbursement", "remittance"}
\* the product arguments a caller passes
ProductArgs == SandboxProducts \cup {"widget"}
SandboxOps == {"get_token", "generate_token"}
\* the user ids and keys a caller passes to Sandbox.generate_token
SandboxUsers == {SuppliedUser, SetupUser}
SandboxKeys == {SuppliedKey, SetupKey}

InitSandbox == Init

\* the exception that leaves the method when the request is answered s:
\* raise_for_status() raises HTTPError, a transport failure is not caught
SandboxError(s) == IF s = "exc" THEN "ConnectionError" ELSE "HTTPError"

\* the method ends: v is returned to, or raised at, the caller
SandboxEnd(v) ==
    /\ pc' = "idle"
    /\ result' = v
    /\ ret' = None
    /\ sk' = None

\* Sandbox.get_token(subscription_key, product), line 139: the entry
sandbox_get_token(s, p) ==
    /\ pc = "idle"
    /\ uuidCount < MaxUuid
    /\ top' = "get_token"
    /\ pc' = "sb_user"
    /\ sk' = s
    /\ product' = p
    /\ ret' = None
    /\ result' = None
    /\ sent' = NoReq
    /\ resp' = NoResp
    /\ cnt' = NoCnt
    /\ UNCHANGED <<inst, now, uuidCount, cur, stack, depth, atCall, confirmed>>

\* Sandbox.generate_token(api_user, api_key, product, subscription_key)
\* called directly: the entry
sandbox_generate_token(u, k, p, s) ==
    /\ pc = "idle"
    /\ top' = "generate_token"
    /\ pc' = "sb_token"
    /\ sk' = s
    /\ product' = p
    /\ ret' = [user |-> u, key |-> k]
    /\ result' = None
    /\ sent' = NoReq
    /\ resp' = NoResp
    /\ cnt' = NoCnt
    /\ UNCHANGED <<inst, now, uuidCount, cur, stack, depth, atCall, confirmed>>

\* Sandbox.create_api_user, lines 34-55, called at line 139
sandbox_create_api_user ==
    /\ pc = "sb_user"
    /\ uuidCount' = uuidCount + 1
    /\ \E s \in CreateUserStatuses :
         /\ Http(CreateUserReq(Uuid(uuidCount + 1)), Status(s))
         /\ IF s = "201"
            THEN /\ pc' = "sb_key"
                 /\ ret' = [user |-> Uuid(uuidCount + 1), key |-> None]
                 /\ UNCHANGED <<result, sk>>
            ELSE SandboxEnd(SandboxError(s))
    /\ UNCHANGED <<inst, now, cur, top, stack, product, depth, atCall>>

\* Sandbox.generate_api_key, lines 72-82, called at line 140
sandbox_generate_api_key ==
    /\ pc = "sb_key"
    /\ \E s \in CreateKeyStatuses :
         IF s = "201"
         THEN \E k \in IssuedKeys :
                /\ Http(CreateKeyReq(ret.user), Resp(s, k, NoExpiresIn))
                /\ pc' = "sb_token"
                /\ ret' = [ret EXCEPT !.key = k]
                /\ UNCHANGED <<result, sk>>
         ELSE /\ Http(CreateKeyReq(ret.user), Status(s))
              /\ SandboxEnd(SandboxError(s))
    /\ UNCHANGED <<inst, now, uuidCount, cur, top, stack, product, depth,
                   atCall>>

\* Sandbox.generate_token, lines 100-122, and line 142 of get_token
sandbox_generate_token_step ==
    /\ pc = "sb_token"
    /\ IF product \notin SandboxProducts
       THEN NoHttp /\ SandboxEnd("ValueError")
       ELSE \E s \in TokenStatuses :
              IF s = "200"
              THEN \E a \in TokensOf(product) :
                     /\ Http(TokenReq(product, ret.user, ret.key),
                             Resp(s, a, NoExpiresIn))
                     /\ SandboxEnd(IF top = "get_token" THEN a ELSE "json")
              ELSE /\ Http(TokenReq(product, ret.user, ret.key), Status(s))
                   /\ SandboxEnd(SandboxError(s))
    /\ UNCHANGED <<inst, now, uuidCount, cur, top, stack, product, depth,
                   atCall>>

NextSandbox ==
    \/ \E s \in SubKeys, p \in ProductArgs : sandbox_get_token(s, p)
    \/ \E u \in SandboxUsers, k \in SandboxKeys, s \in SubKeys, p \in ProductArgs :
         sandbox_generate_token(u, k, p, s)
    \/ sandbox_create_api_user
    \/ sandbox_generate_api_key
    \/ sandbox_generate_token_step

SpecSandbox == InitSandbox /\ [][NextSandbox]_vars

\* C30: a call of Sandbox.get_token or Sandbox.generate_token with a
\* product outside {collection, disbursement, remittance} issues no
\* request at any point and ends by raising ValueError
C30_InvalidProductNoRequest ==
    top \in SandboxOps /\ product \notin SandboxProducts
       => /\ cnt = NoCnt
          /\ pc = "idle" => result = "ValueError"

=============================================================================
